---------------------------- MODULE Spec2Model ----------------------------
(***************************************************************************)
(* CS4270 ALSA SoC codec driver (sound/soc/codecs/cs4270.c): the DAI       *)
(* operations (set_sysclk, set_fmt, hw_params, digital_mute), the mixer    *)
(* controls that share their registers, and the register cache they act on.*)
(***************************************************************************)
EXTENDS Integers, Naturals, Sequences, FiniteSets, TLC

(***************************************************************************)
(* Bounds of the model.                                                    *)
(***************************************************************************)
\* The number of register I/O transactions that fail in one behaviour.
MaxFaults == 1

(***************************************************************************)
(* Register addresses and bit masks (cs4270.c, lines 47-107).              *)
(***************************************************************************)
CS4270_PWRCTL == 2
CS4270_MODE == 3
CS4270_FORMAT == 4
CS4270_TRANS == 5
CS4270_MUTE == 6
CS4270_VOLA == 7
CS4270_VOLB == 8
CS4270_LASTREG == 8

\* 0x30
CS4270_PWRCTL_PDN_ADC == 32
CS4270_PWRCTL_PDN_DAC == 2
CS4270_PWRCTL_PDN == 1

CS4270_MODE_SPEED_MASK == 48
CS4270_MODE_1X == 0
\* 0x10
CS4270_MODE_2X == 16
\* 0x20
CS4270_MODE_4X == 32
\* 0x30
CS4270_MODE_SLAVE == 48
\* 0x0E
CS4270_MODE_DIV_MASK == 14
CS4270_MODE_DIV1 == 0
CS4270_MODE_DIV15 == 2
CS4270_MODE_DIV2 == 4
CS4270_MODE_DIV3 == 6
CS4270_MODE_DIV4 == 8
CS4270_MODE_POPGUARD == 1
\* 0x20
CS4270_FORMAT_LOOPBACK == 32
\* 0x18
CS4270_FORMAT_DAC_MASK == 24
CS4270_FORMAT_DAC_LJ == 0
CS4270_FORMAT_DAC_I2S == 8
CS4270_FORMAT_ADC_MASK == 1
CS4270_FORMAT_ADC_LJ == 0
CS4270_FORMAT_ADC_I2S == 1
\* 0x40, 0x20
CS4270_TRANS_SOFT == 64
CS4270_TRANS_ZERO == 32
\* 0x20
CS4270_MUTE_AUTO == 32
CS4270_MUTE_DAC_A == 1
CS4270_MUTE_DAC_B == 2

(***************************************************************************)
(* Values the driver takes from the kernel headers: the DAI format words   *)
(* of include/sound/soc-dai.h and the error numbers of errno-base.h.       *)
(***************************************************************************)
SND_SOC_DAIFMT_I2S == 1
SND_SOC_DAIFMT_RIGHT_J == 2
SND_SOC_DAIFMT_LEFT_J == 3
\* 0x1000, 0x2000, 0x4000
SND_SOC_DAIFMT_CBM_CFM == 4096
SND_SOC_DAIFMT_CBS_CFM == 8192
SND_SOC_DAIFMT_CBS_CFS == 16384
EIO == 5
EINVAL == 22

(***************************************************************************)
(* C integers.  An int is an integer; the bitwise operators act on its     *)
(* two's complement pattern (-1 is all ones), as they do in C.             *)
(***************************************************************************)
RECURSIVE BitAnd(_, _)
\* a & b
BitAnd(a, b) ==
    IF a = 0 \/ b = 0 THEN 0
    ELSE IF a = -1 THEN b
    ELSE IF b = -1 THEN a
    ELSE (a % 2) * (b % 2) + 2 * BitAnd(a \div 2, b \div 2)

\* ~a
BitNot(a) == -1 - a

\* a | b
BitOr(a, b) == a + b - BitAnd(a, b)

\* The u8 a register write puts on the bus: value & 0xff.
ToU8(v) == v % 256

CS4270_PWRCTL_PDN_ALL ==
    BitOr(BitOr(CS4270_PWRCTL_PDN_ADC, CS4270_PWRCTL_PDN_DAC),
          CS4270_PWRCTL_PDN)

\* Faulty variant: the mask is not complemented.
ComposeRegister_KeepMask(current, clearMask, setBits) ==
    BitOr(BitAnd(current, clearMask), setBits)

\* reg &= ~mask; reg |= bits;  the read-modify-write step of the driver
ComposeRegister(current, clearMask, setBits) ==
    BitOr(BitAnd(current, BitNot(clearMask)), setBits)

VARIABLES
    errata,       \* CONFIG_SND_SOC_CS4270_VD33_ERRATA is set in this build
    mclk,         \* cs4270_private.mclk
    mode,         \* cs4270_private.mode
    slave_mode,   \* cs4270_private.slave_mode
    manual_mute,  \* cs4270_private.manual_mute
    reg_cache,    \* the codec's register cache, one u8 per register
    call,         \* the last driver call: [op, arg, ret]
    io,           \* the register transactions of the last call, in order
    fmt_ok,       \* set_fmt has returned 0 on this binding
    switch,       \* the last 'Master Playback Switch' value written, <<l, r>>
    again,        \* the last call repeated the call before it
    sysclk_arg,   \* the frequency the last set_sysclk call passed
    last_role,    \* the clock role of the last set_fmt that returned 0
    pm,           \* the binding: "unbound", "bound" or "suspended"
    held,         \* the supplies are acquired (regulator_bulk_get, not freed)
    enable_count, \* the use count this driver holds on its supplies
    hw,           \* the registers of the chip itself, one u8 per register
    pre_suspend,  \* the register cache when suspend was last called
    faults,       \* register transactions that have failed so far
    compose       \* a read-modify-write on its own: [c, mask, bits, out]

vars == <<errata, mclk, mode, slave_mode, manual_mute, reg_cache, call, io,
          fmt_ok, switch, again, sysclk_arg, last_role, pm, held,
          enable_count, hw, pre_suspend, faults, compose>>

private == <<mclk, mode, slave_mode, manual_mute>>

lifecycle == <<pm, held, enable_count, pre_suspend>>


(***************************************************************************)
(* The inputs the host framework passes in.                                *)
(***************************************************************************)
\* MCLK frequencies a machine driver reports; 0 is "variable, not known yet".
Freqs == {0, 12288000, 18432000}

\* Sample rates; the DAI advertises 4000..216000 Hz.  47999 does not divide
\* either frequency; 44100 gives a ratio the table does not hold.
Rates == {44100, 47999, 48000, 192000}

\* DAI format words: a format in the low nibble, a clock role in bits 12-15.
Formats ==
    {d + r : d \in {SND_SOC_DAIFMT_I2S, SND_SOC_DAIFMT_LEFT_J},
             r \in {SND_SOC_DAIFMT_CBM_CFM, SND_SOC_DAIFMT_CBS_CFS}}
    \cup {SND_SOC_DAIFMT_RIGHT_J + SND_SOC_DAIFMT_CBM_CFM,
          SND_SOC_DAIFMT_I2S + SND_SOC_DAIFMT_CBS_CFM}

\* format & SND_SOC_DAIFMT_FORMAT_MASK (0x000f)
FormatPart(format) == format % 16

\* format & SND_SOC_DAIFMT_MASTER_MASK (0xf000)
MasterPart(format) == ((format \div 4096) % 16) * 4096

(***************************************************************************)
(* The register cache and the framework's register I/O.                    *)
(***************************************************************************)
Regs == 0..CS4270_LASTREG

\* Power-on defaults of the registers 0..8.
cs4270_default_reg_cache ==
    [r \in Regs |->
        IF r = CS4270_MODE THEN 48
        ELSE IF r = CS4270_TRANS THEN 96
        ELSE IF r = CS4270_MUTE THEN 32
        ELSE 0]

\* One register transaction as the bus sees it: a read and whether it
\* returned a byte, or a write, the byte it carried and whether it succeeded.
Rd(reg, val) == [k |-> "r", reg |-> reg, ok |-> val >= 0]
Wr(reg, val, ret) == [k |-> "w", reg |-> reg, val |-> ToU8(val), ok |-> ret >= 0]

\* read(register) -> byte or IoError
snd_soc_read(cache, reg, fail) == IF fail THEN -EIO ELSE cache[reg]

\* write(register, byte) -> ok or IoError; a failed write leaves the cache.
snd_soc_write(cache, reg, value, fail) ==
    IF fail THEN [ret |-> -EIO, cache |-> cache]
    ELSE [ret |-> 0, cache |-> [cache EXCEPT ![reg] = ToU8(value)]]

\* f[1] fails the read, f[2] the write.
snd_soc_update_bits(cache, reg, mask, value, f) ==
    LET old == snd_soc_read(cache, reg, f[1])
        new == ComposeRegister(old, mask, value)
        w == snd_soc_write(cache, reg, new, f[2])
    IN  IF old < 0 THEN [ret |-> old, cache |-> cache, io |-> <<Rd(reg, old)>>]
        ELSE IF old = new
        THEN [ret |-> 0, cache |-> cache, io |-> <<Rd(reg, old)>>]
        ELSE [ret |-> IF w.ret < 0 THEN w.ret ELSE 1, cache |-> w.cache,
              io |-> <<Rd(reg, old), Wr(reg, new, w.ret)>>]

\* The chip's registers after the transactions of log: a write that
\* succeeded has put its byte into the register.
RECURSIVE ApplyWrites(_, _)
ApplyWrites(h, log) ==
    IF log = <<>> THEN h
    ELSE LET e == Head(log)
             h1 == IF e.k = "w" /\ e.ok THEN [h EXCEPT ![e.reg] = e.val]
                   ELSE h
         IN  ApplyWrites(h1, Tail(log))

\* A switch control of one bit per channel (max 1): v is <<left>> or
\* <<left, right>>, the second channel at rshift.
snd_soc_put_volsw(cache, reg, shift, rshift, invert, v, f) ==
    LET bit(x) == IF invert THEN 1 - (x % 2) ELSE x % 2
        one == bit(v[1]) * 2^shift
        two == IF shift # rshift THEN bit(v[2]) * 2^rshift ELSE 0
        mask == IF shift # rshift THEN 2^shift + 2^rshift ELSE 2^shift
    IN  snd_soc_update_bits(cache, reg, mask, BitOr(one, two), f)

(***************************************************************************)
(* The clock ratio table.                                                  *)
(***************************************************************************)
Ratio(r, s, m) == [ratio |-> r, speed_mode |-> s, mclk |-> m]

\* Faulty variant: the divide-by-1.5 entry is in the table in every build.
cs4270_mode_ratios_NoErrata ==
    <<Ratio(64, CS4270_MODE_4X, CS4270_MODE_DIV1),
      Ratio(96, CS4270_MODE_4X, CS4270_MODE_DIV15),
      Ratio(128, CS4270_MODE_2X, CS4270_MODE_DIV1),
      Ratio(192, CS4270_MODE_4X, CS4270_MODE_DIV3),
      Ratio(256, CS4270_MODE_1X, CS4270_MODE_DIV1),
      Ratio(384, CS4270_MODE_2X, CS4270_MODE_DIV3),
      Ratio(512, CS4270_MODE_1X, CS4270_MODE_DIV2),
      Ratio(768, CS4270_MODE_1X, CS4270_MODE_DIV3),
      Ratio(1024, CS4270_MODE_1X, CS4270_MODE_DIV4)>>

cs4270_mode_ratios ==
    <<Ratio(64, CS4270_MODE_4X, CS4270_MODE_DIV1)>>
    \o (IF errata THEN <<>>
        ELSE <<Ratio(96, CS4270_MODE_4X, CS4270_MODE_DIV15)>>)
    \o <<Ratio(128, CS4270_MODE_2X, CS4270_MODE_DIV1),
         Ratio(192, CS4270_MODE_4X, CS4270_MODE_DIV3),
         Ratio(256, CS4270_MODE_1X, CS4270_MODE_DIV1),
         Ratio(384, CS4270_MODE_2X, CS4270_MODE_DIV3),
         Ratio(512, CS4270_MODE_1X, CS4270_MODE_DIV2),
         Ratio(768, CS4270_MODE_1X, CS4270_MODE_DIV3),
         Ratio(1024, CS4270_MODE_1X, CS4270_MODE_DIV4)>>

NUM_MCLK_RATIOS == Len(cs4270_mode_ratios)

RECURSIVE ScanRatios_AtLeast(_, _)
\* Faulty variant: the scan stops at the first entry that is not below the ratio.
ScanRatios_AtLeast(i, ratio) ==
    IF i > NUM_MCLK_RATIOS THEN i
    ELSE IF cs4270_mode_ratios[i].ratio >= ratio THEN i
    ELSE ScanRatios_AtLeast(i + 1, ratio)

RECURSIVE ScanRatios(_, _)
\* for (i = 0; i < NUM_MCLK_RATIOS; i++) if (table[i].ratio == ratio) break;
\* the index is 1-based here, so "not found" is NUM_MCLK_RATIOS + 1.
ScanRatios(i, ratio) ==
    IF i > NUM_MCLK_RATIOS THEN i
    ELSE IF cs4270_mode_ratios[i].ratio = ratio THEN i
    ELSE ScanRatios(i + 1, ratio)

(***************************************************************************)
(* The DAI operations, each as the result of one call in the current state.*)
(***************************************************************************)
\* Faulty variant: a frequency is recorded only while none is known.
cs4270_set_dai_sysclk_KeepFirst(freq) ==
    [ret |-> 0, mclk |-> IF mclk = 0 THEN freq ELSE mclk]

\* Faulty variant: frequency 0 is refused.
cs4270_set_dai_sysclk_RejectZero(freq) ==
    IF freq = 0 THEN [ret |-> -EINVAL, mclk |-> mclk]
    ELSE [ret |-> 0, mclk |-> freq]

cs4270_set_dai_sysclk(freq) == [ret |-> 0, mclk |-> freq]

\* Faulty variant: an unsupported clock role falls back to master mode.
cs4270_set_dai_fmt_ResetRole(format) ==
    LET f == FormatPart(format)
        m == MasterPart(format)
    IN  IF f \notin {SND_SOC_DAIFMT_I2S, SND_SOC_DAIFMT_LEFT_J}
        THEN [ret |-> -EINVAL, mode |-> mode, slave_mode |-> slave_mode]
        ELSE IF m = SND_SOC_DAIFMT_CBS_CFS
        THEN [ret |-> 0, mode |-> f, slave_mode |-> 1]
        ELSE IF m = SND_SOC_DAIFMT_CBM_CFM
        THEN [ret |-> 0, mode |-> f, slave_mode |-> 0]
        ELSE [ret |-> -EINVAL, mode |-> f, slave_mode |-> 0]

\* Faulty variant: the codec-is-slave role flips slave_mode instead of setting it.
cs4270_set_dai_fmt_Toggle(format) ==
    LET f == FormatPart(format)
        m == MasterPart(format)
    IN  IF f \notin {SND_SOC_DAIFMT_I2S, SND_SOC_DAIFMT_LEFT_J}
        THEN [ret |-> -EINVAL, mode |-> mode, slave_mode |-> slave_mode]
        ELSE IF m = SND_SOC_DAIFMT_CBS_CFS
        THEN [ret |-> 0, mode |-> f, slave_mode |-> 1 - slave_mode]
        ELSE IF m = SND_SOC_DAIFMT_CBM_CFM
        THEN [ret |-> 0, mode |-> f, slave_mode |-> 0]
        ELSE [ret |-> -EINVAL, mode |-> f, slave_mode |-> slave_mode]

cs4270_set_dai_fmt(format) ==
    LET f == FormatPart(format)
        m == MasterPart(format)
        okf == f \in {SND_SOC_DAIFMT_I2S, SND_SOC_DAIFMT_LEFT_J}
        newmode == IF okf THEN f ELSE mode
    IN  IF ~okf THEN [ret |-> -EINVAL, mode |-> mode, slave_mode |-> slave_mode]
        ELSE IF m = SND_SOC_DAIFMT_CBS_CFS
        THEN [ret |-> 0, mode |-> newmode, slave_mode |-> 1]
        ELSE IF m = SND_SOC_DAIFMT_CBM_CFM
        THEN [ret |-> 0, mode |-> newmode, slave_mode |-> 0]
        ELSE [ret |-> -EINVAL, mode |-> newmode, slave_mode |-> slave_mode]

\* Faulty variant: the speed bits of the table entry are written in slave
\* mode too.
cs4270_hw_params_NoSlave(rate, f) ==
    LET ratio == mclk \div rate
        i == ScanRatios(1, ratio)
    IN  IF i = NUM_MCLK_RATIOS + 1
        THEN [ret |-> -EINVAL, cache |-> reg_cache, io |-> <<>>]
        ELSE
        LET e == cs4270_mode_ratios[i]
            reg == snd_soc_read(reg_cache, CS4270_MODE, f[1])
            new == ComposeRegister(reg,
                       BitOr(CS4270_MODE_SPEED_MASK, CS4270_MODE_DIV_MASK),
                       BitOr(e.mclk, e.speed_mode))
            w == snd_soc_write(reg_cache, CS4270_MODE, new, f[2])
            io1 == <<Rd(CS4270_MODE, reg), Wr(CS4270_MODE, new, w.ret)>>
        IN  IF w.ret < 0 THEN [ret |-> w.ret, cache |-> w.cache, io |-> io1]
            ELSE
            LET reg2 == snd_soc_read(w.cache, CS4270_FORMAT, f[3])
                io2 == Append(io1, Rd(CS4270_FORMAT, reg2))
                bits == IF mode = SND_SOC_DAIFMT_I2S
                        THEN BitOr(CS4270_FORMAT_DAC_I2S, CS4270_FORMAT_ADC_I2S)
                        ELSE BitOr(CS4270_FORMAT_DAC_LJ, CS4270_FORMAT_ADC_LJ)
                new2 == ComposeRegister(reg2,
                            BitOr(CS4270_FORMAT_DAC_MASK, CS4270_FORMAT_ADC_MASK),
                            bits)
                w2 == snd_soc_write(w.cache, CS4270_FORMAT, new2, f[4])
            IN  IF mode \notin {SND_SOC_DAIFMT_I2S, SND_SOC_DAIFMT_LEFT_J}
                THEN [ret |-> -EINVAL, cache |-> w.cache, io |-> io2]
                ELSE [ret |-> w2.ret, cache |-> w2.cache,
                      io |-> Append(io2, Wr(CS4270_FORMAT, new2, w2.ret))]

\* f[1], f[2]: the MODE read and write fail; f[3], f[4]: the FORMAT ones.
cs4270_hw_params(rate, f) ==
    LET ratio == mclk \div rate
        i == ScanRatios(1, ratio)
    IN  IF i = NUM_MCLK_RATIOS + 1
        THEN [ret |-> -EINVAL, cache |-> reg_cache, io |-> <<>>]
        ELSE
        LET e == cs4270_mode_ratios[i]
            reg == snd_soc_read(reg_cache, CS4270_MODE, f[1])
            new == ComposeRegister(reg,
                       BitOr(CS4270_MODE_SPEED_MASK, CS4270_MODE_DIV_MASK),
                       BitOr(e.mclk, IF slave_mode # 0 THEN CS4270_MODE_SLAVE
                                     ELSE e.speed_mode))
            w == snd_soc_write(reg_cache, CS4270_MODE, new, f[2])
            io1 == <<Rd(CS4270_MODE, reg), Wr(CS4270_MODE, new, w.ret)>>
        IN  IF w.ret < 0 THEN [ret |-> w.ret, cache |-> w.cache, io |-> io1]
            ELSE
            LET reg2 == snd_soc_read(w.cache, CS4270_FORMAT, f[3])
                io2 == Append(io1, Rd(CS4270_FORMAT, reg2))
                bits == IF mode = SND_SOC_DAIFMT_I2S
                        THEN BitOr(CS4270_FORMAT_DAC_I2S, CS4270_FORMAT_ADC_I2S)
                        ELSE BitOr(CS4270_FORMAT_DAC_LJ, CS4270_FORMAT_ADC_LJ)
                new2 == ComposeRegister(reg2,
                            BitOr(CS4270_FORMAT_DAC_MASK, CS4270_FORMAT_ADC_MASK),
                            bits)
                w2 == snd_soc_write(w.cache, CS4270_FORMAT, new2, f[4])
            IN  IF mode \notin {SND_SOC_DAIFMT_I2S, SND_SOC_DAIFMT_LEFT_J}
                THEN [ret |-> -EINVAL, cache |-> w.cache, io |-> io2]
                ELSE [ret |-> w2.ret, cache |-> w2.cache,
                      io |-> Append(io2, Wr(CS4270_FORMAT, new2, w2.ret))]

\* f[1] fails the read of MUTE, f[2] the write.
cs4270_dai_mute(mute, f) ==
    LET reg6 == snd_soc_read(reg_cache, CS4270_MUTE, f[1])
        dac == BitOr(CS4270_MUTE_DAC_A, CS4270_MUTE_DAC_B)
        new == IF mute # 0 THEN BitOr(reg6, dac)
               ELSE BitOr(BitAnd(reg6, BitNot(dac)), manual_mute)
        w == snd_soc_write(reg_cache, CS4270_MUTE, new, f[2])
    IN  [ret |-> w.ret, cache |-> w.cache,
         io |-> <<Rd(CS4270_MUTE, reg6), Wr(CS4270_MUTE, new, w.ret)>>]

\* The put callback of 'Master Playback Switch': v[1], v[2] are the left and
\* right switch values (1 = playing, 0 = muted).
cs4270_soc_put_mute(v, f) ==
    LET left == IF v[1] = 0 THEN 1 ELSE 0
        right == IF v[2] = 0 THEN 1 ELSE 0
        r == snd_soc_put_volsw(reg_cache, CS4270_MUTE, 0, 1, TRUE, v, f)
    IN  [ret |-> r.ret, cache |-> r.cache, io |-> r.io,
         manual_mute |-> BitOr(IF left # 0 THEN CS4270_MUTE_DAC_A ELSE 0,
                               IF right # 0 THEN CS4270_MUTE_DAC_B ELSE 0)]

\* The single-bit switch controls of cs4270_snd_controls that share a
\* register with the DAI operations: [reg, shift, invert].
cs4270_snd_controls ==
    [Sidetone |-> [reg |-> CS4270_FORMAT, shift |-> 5, invert |-> FALSE],
     Popguard |-> [reg |-> CS4270_MODE, shift |-> 0, invert |-> TRUE],
     AutoMute |-> [reg |-> CS4270_MUTE, shift |-> 5, invert |-> FALSE]]

(***************************************************************************)
(* The state after cs4270_i2c_probe and cs4270_probe have succeeded.       *)
(***************************************************************************)
NoFault == <<FALSE, FALSE>>

\* cs4270_probe: auto-mute, soft ramp and zero cross are switched off.
cs4270_probe ==
    LET a == snd_soc_update_bits(cs4270_default_reg_cache, CS4270_MUTE,
                                 CS4270_MUTE_AUTO, 0, NoFault)
        b == snd_soc_update_bits(a.cache, CS4270_TRANS,
                                 BitOr(CS4270_TRANS_SOFT, CS4270_TRANS_ZERO),
                                 0, NoFault)
    IN  b.cache

\* cs4270_i2c_probe: kzalloc zeroes the private data.
Init ==
    /\ errata \in BOOLEAN
    /\ mclk = 0
    /\ mode = 0
    /\ slave_mode = 0
    /\ manual_mute = 0
    /\ reg_cache = cs4270_probe
    /\ call = [op |-> "probe", arg |-> <<>>, ret |-> 0]
    /\ io = <<>>
    /\ fmt_ok = FALSE
    /\ switch = <<1, 1>>
    /\ again = FALSE
    /\ sysclk_arg = 0
    /\ last_role = 0
    /\ pm = "bound"
    /\ held = TRUE
    /\ enable_count = 1
    /\ hw = cs4270_probe
    /\ pre_suspend = cs4270_probe
    /\ faults = 0
    /\ compose = [c |-> 0, mask |-> 0, bits |-> 0, out |-> -1]

(***************************************************************************)
(* Fault injection: f names the transactions of a call that fail.  Only a  *)
(* transaction the call issues can fail, and MaxFaults bounds the total.   *)
(***************************************************************************)
Failed(s) == Cardinality({i \in DOMAIN s : ~s[i].ok})

\* The fault patterns over n transactions that the bound still allows.
Flags(n) ==
    {f \in [1..n -> BOOLEAN] :
        Cardinality({i \in 1..n : f[i]}) <= MaxFaults - faults}

\* Every transaction f fails is one the call issued.
FaultsFit(f, s) == Cardinality({i \in DOMAIN f : f[i]}) = Failed(s)

(***************************************************************************)
(* The actions: one call of one entry point each.                          *)
(***************************************************************************)
SetSysclk ==
    \E freq \in Freqs :
        LET r == cs4270_set_dai_sysclk(freq)
        IN  /\ mclk' = r.mclk
            /\ call' = [op |-> "set_sysclk", arg |-> <<freq>>, ret |-> r.ret]
            /\ io' = <<>>
            /\ again' = FALSE
            /\ sysclk_arg' = freq
            /\ UNCHANGED <<errata, mode, slave_mode, manual_mute, reg_cache,
                           fmt_ok, switch, last_role, lifecycle, hw, faults,
                           compose>>

SetFmt ==
    \E format \in Formats :
        LET r == cs4270_set_dai_fmt(format)
        IN  /\ mode' = r.mode
            /\ slave_mode' = r.slave_mode
            /\ call' = [op |-> "set_fmt", arg |-> <<format>>, ret |-> r.ret]
            /\ io' = <<>>
            /\ fmt_ok' = (fmt_ok \/ r.ret = 0)
            /\ again' = (call.op = "set_fmt" /\ call.arg = <<format>>)
            /\ last_role' = (IF r.ret = 0 THEN MasterPart(format)
                             ELSE last_role)
            /\ UNCHANGED <<errata, mclk, manual_mute, reg_cache, switch,
                           sysclk_arg, lifecycle, hw, faults, compose>>

HwParams ==
    \E rate \in Rates, f \in Flags(4) :
        \E r \in {cs4270_hw_params(rate, f)} :
            /\ FaultsFit(f, r.io)
            /\ reg_cache' = r.cache
            /\ call' = [op |-> "hw_params", arg |-> <<rate>>, ret |-> r.ret]
            /\ io' = r.io
            /\ faults' = faults + Failed(r.io)
            /\ again' = FALSE
            /\ hw' = ApplyWrites(hw, r.io)
            /\ UNCHANGED <<errata, private, fmt_ok, switch, sysclk_arg,
                           last_role, lifecycle, compose>>

DaiMute ==
    \E mute \in {0, 1}, f \in Flags(2) :
        \E r \in {cs4270_dai_mute(mute, f)} :
            /\ FaultsFit(f, r.io)
            /\ reg_cache' = r.cache
            /\ call' = [op |-> "dai_mute", arg |-> <<mute>>, ret |-> r.ret]
            /\ io' = r.io
            /\ faults' = faults + Failed(r.io)
            /\ again' = FALSE
            /\ hw' = ApplyWrites(hw, r.io)
            /\ UNCHANGED <<errata, private, fmt_ok, switch, sysclk_arg,
                           last_role, lifecycle, compose>>

PutMute ==
    \E v \in {0, 1} \X {0, 1}, f \in Flags(2) :
        \E r \in {cs4270_soc_put_mute(v, f)} :
            /\ FaultsFit(f, r.io)
            /\ manual_mute' = r.manual_mute
            /\ reg_cache' = r.cache
            /\ call' = [op |-> "put_mute", arg |-> v, ret |-> r.ret]
            /\ io' = r.io
            /\ switch' = v
            /\ faults' = faults + Failed(r.io)
            /\ again' = FALSE
            /\ hw' = ApplyWrites(hw, r.io)
            /\ UNCHANGED <<errata, mclk, mode, slave_mode, fmt_ok, sysclk_arg,
                           last_role, lifecycle, compose>>

\* The put callback (snd_soc_put_volsw) of one of the switch controls.
PutControl(names) ==
    \E n \in names, v \in {0, 1}, f \in Flags(2) :
        \E c \in {cs4270_snd_controls[n]} :
        \E r \in {snd_soc_put_volsw(reg_cache, c.reg, c.shift, c.shift,
                                    c.invert, <<v>>, f)} :
            /\ FaultsFit(f, r.io)
            /\ reg_cache' = r.cache
            /\ call' = [op |-> "put_control", arg |-> <<c.reg, v>>,
                        ret |-> r.ret]
            /\ io' = r.io
            /\ faults' = faults + Failed(r.io)
            /\ again' = FALSE
            /\ hw' = ApplyWrites(hw, r.io)
            /\ UNCHANGED <<errata, private, fmt_ok, switch, sysclk_arg,
                           last_role, lifecycle, compose>>

\* The controls on the MODE and FORMAT registers, which hw_params programs.
PutClockControl == PutControl({"Sidetone", "Popguard"})

\* The control on the MUTE register, which digital_mute programs.
PutMuteControl == PutControl({"AutoMute"})

Next ==
    \/ SetSysclk
    \/ SetFmt
    \/ HwParams
    \/ PutClockControl
    \/ DaiMute
    \/ PutMute
    \/ PutMuteControl

Spec == Init /\ [][Next]_vars

(***************************************************************************)
(* The two halves of the driver share no state: the clock and format half  *)
(* (mclk, mode, slave_mode, MODE, FORMAT) and the mute half (manual_mute,  *)
(* MUTE).  Each is checked on its own, with every operation that touches   *)
(* its state.                                                              *)
(***************************************************************************)
NextClock ==
    \/ SetSysclk
    \/ SetFmt
    \/ HwParams
    \/ PutClockControl

SpecClock == Init /\ [][NextClock]_vars

NextMute ==
    \/ DaiMute
    \/ PutMute
    \/ PutMuteControl

SpecMute == Init /\ [][NextMute]_vars

(***************************************************************************)
(* The read-modify-write step on its own: inputs drawn over the bytes, the *)
(* step applied once.                                                      *)
(***************************************************************************)
Bytes == 0..(2^8 - 1)

\* The driver's two masks (0x3E, 0x19), its control masks, none and all.
ComposeMasks == {0, 1, 3, 25, 32, 62, 255}

\* Field values of the driver and values that reach outside its masks.
ComposeBits == {0, 1, 2, 6, 8, 9, 22, 32, 48, 50, 64, 129}

InitCompose ==
    /\ errata = FALSE
    /\ mclk = 0
    /\ mode = 0
    /\ slave_mode = 0
    /\ manual_mute = 0
    /\ reg_cache = cs4270_probe
    /\ call = [op |-> "probe", arg |-> <<>>, ret |-> 0]
    /\ io = <<>>
    /\ fmt_ok = FALSE
    /\ switch = <<1, 1>>
    /\ again = FALSE
    /\ sysclk_arg = 0
    /\ last_role = 0
    /\ pm = "bound"
    /\ held = TRUE
    /\ enable_count = 1
    /\ hw = cs4270_probe
    /\ pre_suspend = cs4270_probe
    /\ faults = 0
    /\ compose \in [c : Bytes, mask : ComposeMasks, bits : ComposeBits,
                    out : {-1}]

Compose ==
    /\ compose.out = -1
    /\ compose' = [compose EXCEPT
                      !.out = ToU8(ComposeRegister(compose.c, compose.mask,
                                                   compose.bits))]
    /\ UNCHANGED <<errata, private, reg_cache, call, io, fmt_ok, switch,
                   again, sysclk_arg, last_role, lifecycle, hw, faults>>

SpecCompose == InitCompose /\ [][Compose]_vars

(***************************************************************************)
(* The host lifecycle: probe, suspend, resume, remove, and the supplies.   *)
(***************************************************************************)
\* One step of a call that is no register transaction: a regulator call or
\* the cache sync, and whether it succeeded.
Ev(kind, ret) == [k |-> kind, ok |-> ret >= 0]

\* regulator_bulk_get: the supplies are acquired, or an error.
regulator_bulk_get(fail) ==
    IF fail THEN [ret |-> -EINVAL, held |-> FALSE]
    ELSE [ret |-> 0, held |-> TRUE]

\* regulator_bulk_enable: one more use of the supplies, or an error.
regulator_bulk_enable(count, fail) ==
    IF fail THEN [ret |-> -EINVAL, count |-> count]
    ELSE [ret |-> 0, count |-> count + 1]

\* regulator_bulk_disable: one use less; with no use left the call is
\* unbalanced and fails.
regulator_bulk_disable(count) ==
    IF count = 0 THEN [ret |-> -EIO, count |-> 0]
    ELSE [ret |-> 0, count |-> count - 1]

\* snd_soc_cache_sync: the cached registers are written to the chip in
\* order; n is the first register whose write fails (none: LASTREG + 1).
snd_soc_cache_sync(cache, h, n) ==
    [ret |-> IF n <= CS4270_LASTREG THEN -EIO ELSE 0,
     hw |-> [r \in Regs |-> IF r < n THEN cache[r] ELSE h[r]]]

\* cs4270_probe as a call.  f[1], f[2]: the MUTE read and write fail;
\* f[3], f[4]: the TRANS ones; f[5]: regulator_bulk_get; f[6]:
\* regulator_bulk_enable.
cs4270_probe_call(f) ==
    LET a == snd_soc_update_bits(reg_cache, CS4270_MUTE, CS4270_MUTE_AUTO, 0,
                                 <<f[1], f[2]>>)
        b == snd_soc_update_bits(a.cache, CS4270_TRANS,
                                 BitOr(CS4270_TRANS_SOFT, CS4270_TRANS_ZERO),
                                 0, <<f[3], f[4]>>)
        g == regulator_bulk_get(f[5])
        e == regulator_bulk_enable(enable_count, f[6])
        io2 == a.io \o b.io
        io3 == Append(io2, Ev("get", g.ret))
    IN  IF a.ret < 0
        THEN [ret |-> a.ret, cache |-> a.cache, io |-> a.io,
              held |-> held, count |-> enable_count]
        ELSE IF b.ret < 0
        THEN [ret |-> b.ret, cache |-> b.cache, io |-> io2,
              held |-> held, count |-> enable_count]
        ELSE IF g.ret < 0
        THEN [ret |-> g.ret, cache |-> b.cache, io |-> io3,
              held |-> g.held, count |-> enable_count]
        ELSE IF e.ret < 0
        THEN [ret |-> e.ret, cache |-> b.cache,
              io |-> io3 \o <<Ev("enable", e.ret), Ev("free", 0)>>,
              held |-> FALSE, count |-> e.count]
        ELSE [ret |-> 0, cache |-> b.cache,
              io |-> Append(io3, Ev("enable", e.ret)),
              held |-> g.held, count |-> e.count]

cs4270_remove ==
    LET d == regulator_bulk_disable(enable_count)
    IN  [ret |-> 0, io |-> <<Ev("disable", d.ret), Ev("free", 0)>>,
         held |-> FALSE, count |-> d.count]

\* f[1], f[2]: the PWRCTL read and write fail.
cs4270_soc_suspend(f) ==
    LET rd == snd_soc_read(reg_cache, CS4270_PWRCTL, f[1])
        reg == BitOr(rd, CS4270_PWRCTL_PDN_ALL)
        w == snd_soc_write(reg_cache, CS4270_PWRCTL, reg, f[2])
        d == regulator_bulk_disable(enable_count)
        io1 == <<Rd(CS4270_PWRCTL, rd)>>
        io2 == Append(io1, Wr(CS4270_PWRCTL, reg, w.ret))
    IN  IF reg < 0
        THEN [ret |-> reg, cache |-> reg_cache, io |-> io1,
              count |-> enable_count]
        ELSE IF w.ret < 0
        THEN [ret |-> w.ret, cache |-> w.cache, io |-> io2,
              count |-> enable_count]
        ELSE [ret |-> 0, cache |-> w.cache,
              io |-> Append(io2, Ev("disable", d.ret)), count |-> d.count]

\* f[1]: regulator_bulk_enable fails; n: see snd_soc_cache_sync; f[2], f[3]:
\* the PWRCTL read and write fail.  Only the result of the write is looked at.
cs4270_soc_resume(f, n) ==
    LET e == regulator_bulk_enable(enable_count, f[1])
        y == snd_soc_cache_sync(reg_cache, hw, n)
        rd == snd_soc_read(reg_cache, CS4270_PWRCTL, f[2])
        reg == BitAnd(rd, BitNot(CS4270_PWRCTL_PDN_ALL))
        w == snd_soc_write(reg_cache, CS4270_PWRCTL, reg, f[3])
        log == <<Rd(CS4270_PWRCTL, rd), Wr(CS4270_PWRCTL, reg, w.ret)>>
    IN  [ret |-> w.ret, cache |-> w.cache, count |-> e.count,
         hw |-> ApplyWrites(y.hw, log),
         io |-> <<Ev("enable", e.ret), Ev("sync", y.ret)>> \o log]

\* The state after cs4270_i2c_probe: the private data zeroed, the cache at
\* its defaults, the chip out of reset, cs4270_probe not yet called.
InitPower ==
    /\ errata = FALSE
    /\ mclk = 0
    /\ mode = 0
    /\ slave_mode = 0
    /\ manual_mute = 0
    /\ reg_cache = cs4270_default_reg_cache
    /\ call = [op |-> "i2c_probe", arg |-> <<>>, ret |-> 0]
    /\ io = <<>>
    /\ fmt_ok = FALSE
    /\ switch = <<1, 1>>
    /\ again = FALSE
    /\ sysclk_arg = 0
    /\ last_role = 0
    /\ pm = "unbound"
    /\ held = FALSE
    /\ enable_count = 0
    /\ hw = cs4270_default_reg_cache
    /\ pre_suspend = cs4270_default_reg_cache
    /\ faults = 0
    /\ compose = [c |-> 0, mask |-> 0, bits |-> 0, out |-> -1]

\* The steps of a call that were made to fail.
Injected(s) ==
    Cardinality({i \in DOMAIN s : ~s[i].ok /\ s[i].k # "disable"})

SyncPoints ==
    {n \in 0..(CS4270_LASTREG + 1) :
        n <= CS4270_LASTREG => faults < MaxFaults}

Probe ==
    /\ pm = "unbound"
    /\ call.op = "i2c_probe"
    /\ \E f \in Flags(6) :
        \E r \in {cs4270_probe_call(f)} :
            /\ FaultsFit(f, r.io)
            /\ reg_cache' = r.cache
            /\ hw' = ApplyWrites(hw, r.io)
            /\ held' = r.held
            /\ enable_count' = r.count
            /\ pm' = (IF r.ret = 0 THEN "bound" ELSE "unbound")
            /\ call' = [op |-> "probe", arg |-> <<>>, ret |-> r.ret]
            /\ io' = r.io
            /\ faults' = faults + Injected(r.io)
            /\ again' = FALSE
            /\ UNCHANGED <<errata, private, fmt_ok, switch, sysclk_arg,
                           last_role, pre_suspend, compose>>

Remove ==
    /\ pm = "bound"
    /\ \E r \in {cs4270_remove} :
            /\ held' = r.held
            /\ enable_count' = r.count
            /\ pm' = "unbound"
            /\ call' = [op |-> "remove", arg |-> <<>>, ret |-> r.ret]
            /\ io' = r.io
            /\ again' = FALSE
            /\ UNCHANGED <<errata, private, reg_cache, fmt_ok, switch,
                           sysclk_arg, last_role, hw, pre_suspend, faults,
                           compose>>

\* A suspend that returns an error is abandoned: the device stays bound.
Suspend ==
    /\ pm = "bound"
    /\ \E f \in Flags(2) :
        \E r \in {cs4270_soc_suspend(f)} :
            /\ FaultsFit(f, r.io)
            /\ reg_cache' = r.cache
            /\ hw' = ApplyWrites(hw, r.io)
            /\ enable_count' = r.count
            /\ pre_suspend' = reg_cache
            /\ pm' = (IF r.ret = 0 THEN "suspended" ELSE "bound")
            /\ call' = [op |-> "suspend", arg |-> <<>>, ret |-> r.ret]
            /\ io' = r.io
            /\ faults' = faults + Injected(r.io)
            /\ again' = FALSE
            /\ UNCHANGED <<errata, private, fmt_ok, switch, sysclk_arg,
                           last_role, held, compose>>

\* While the supplies are off the chip may lose power and come back with
\* its reset values.
PowerLoss ==
    /\ pm = "suspended"
    /\ enable_count = 0
    /\ hw # cs4270_default_reg_cache
    /\ hw' = cs4270_default_reg_cache
    /\ UNCHANGED <<errata, private, reg_cache, call, io, fmt_ok, switch,
                   again, sysclk_arg, last_role, lifecycle, faults, compose>>

Resume ==
    /\ pm = "suspended"
    /\ \E f \in Flags(3), n \in SyncPoints :
        \E r \in {cs4270_soc_resume(f, n)} :
            /\ Injected(r.io) <= MaxFaults - faults
            /\ reg_cache' = r.cache
            /\ hw' = r.hw
            /\ enable_count' = r.count
            /\ pm' = "bound"
            /\ call' = [op |-> "resume", arg |-> <<>>, ret |-> r.ret]
            /\ io' = r.io
            /\ faults' = faults + Injected(r.io)
            /\ again' = FALSE
            /\ UNCHANGED <<errata, private, fmt_ok, switch, sysclk_arg,
                           last_role, held, pre_suspend, compose>>

\* The mute entry points are called on a bound device that is not suspended.
BoundDaiMute == pm = "bound" /\ DaiMute

BoundPutMute == pm = "bound" /\ PutMute

NextPower ==
    \/ Probe
    \/ Suspend
    \/ PowerLoss
    \/ Resume
    \/ Remove
    \/ BoundDaiMute
    \/ BoundPutMute

SpecPower == InitPower /\ [][NextPower]_vars

(***************************************************************************)
(* Properties.                                                             *)
(***************************************************************************)
\* The bits of byte v outside mask.
Outside(v, mask) == BitAnd(v, BitAnd(BitNot(mask), 255))

\* The table entries whose ratio is r.
Matching(r) ==
    {i \in 1..Len(cs4270_mode_ratios) : cs4270_mode_ratios[i].ratio = r}

\* The MODE byte hw_params put on the bus in the last call, as a set.
ModeWrites ==
    {io[i].val : i \in {j \in DOMAIN io : io[j].k = "w"
                                          /\ io[j].reg = CS4270_MODE}}

\* A format word set_fmt accepts.
ValidFormat(format) ==
    /\ FormatPart(format) \in {SND_SOC_DAIFMT_I2S, SND_SOC_DAIFMT_LEFT_J}
    /\ MasterPart(format) \in {SND_SOC_DAIFMT_CBS_CFS, SND_SOC_DAIFMT_CBM_CFM}

\* C1: hw_params takes ratio = mclk / rate by integer division.  If a table
\* entry has that ratio, the byte written to MODE carries that entry's
\* divider bits and, in master mode, its speed bits (ratio 256: 1x, div1);
\* if none has, the call returns -EINVAL and writes nothing.
C1_RatioResolution ==
    call.op = "hw_params" =>
        LET ratio == mclk \div call.arg[1]
        IN  /\ Matching(ratio) = {} => (call.ret = -EINVAL /\ io = <<>>)
            /\ \A i \in Matching(ratio) :
                /\ ModeWrites # {}
                /\ \A v \in ModeWrites :
                    /\ BitAnd(v, CS4270_MODE_DIV_MASK)
                           = cs4270_mode_ratios[i].mclk
                    /\ slave_mode = 0 =>
                           BitAnd(v, CS4270_MODE_SPEED_MASK)
                               = cs4270_mode_ratios[i].speed_mode
            /\ (ratio = 256 /\ slave_mode = 0) =>
                   \A v \in ModeWrites :
                       BitAnd(v, 62) = BitOr(CS4270_MODE_1X, CS4270_MODE_DIV1)

\* C1 witness: 12288000 / 48000 was resolved and MODE holds {1x, div1}; the
\* inexact 12288000 / 47999 resolves to the same entry.
C1_Witness ==
    /\ call.op = "hw_params"
    /\ call.ret = 0
    /\ mclk = 12288000
    /\ call.arg[1] \in {48000, 47999}
    /\ slave_mode = 0
    /\ BitAnd(reg_cache[CS4270_MODE], 62) = 0

\* C2 (as amended): for all bytes c, mask and bits with bits inside mask,
\* the composed byte agrees with c on every bit outside mask.
C2_ComposeKeepsOutside ==
    (compose.out # -1 /\ Outside(compose.bits, compose.mask) = 0) =>
        Outside(compose.out, compose.mask) = Outside(compose.c, compose.mask)

\* C2 witness: the MODE mask applied to a byte with bits outside it.
C2_Witness ==
    /\ compose.out # -1
    /\ compose.mask = 62
    /\ compose.bits = 22
    /\ compose.c = 233
    /\ compose.out = 215

\* C2 as stated: the same for all bytes c, mask and bits.
C2_AsStated ==
    compose.out # -1 =>
        Outside(compose.out, compose.mask) = Outside(compose.c, compose.mask)

\* C3: set_fmt with a format word it does not accept returns -EINVAL and
\* leaves mclk and slave_mode as they were.
C3_InvalidFormatKeepsClockConfig ==
    [][(call'.op = "set_fmt" /\ ~ValidFormat(call'.arg[1])) =>
           /\ call'.ret = -EINVAL
           /\ mclk' = mclk
           /\ slave_mode' = slave_mode]_vars

\* C3 witness: a rejected format word, with a clock and slave mode recorded
\* before it.
C3_Witness ==
    /\ call.op = "set_fmt"
    /\ ~ValidFormat(call.arg[1])
    /\ call.ret = -EINVAL
    /\ mclk = 18432000
    /\ slave_mode = 1

\* C6: a ratio of 96 resolves to {4x, div1.5} in a build without the errata
\* option and fails with -EINVAL, writing nothing, in a build with it; with
\* the option hw_params never writes div1.5 into the divider field of MODE.
C6_ErrataAvoidsDiv15 ==
    call.op = "hw_params" =>
        /\ (mclk \div call.arg[1] = 96 /\ errata) =>
               (call.ret = -EINVAL /\ io = <<>>)
        /\ (mclk \div call.arg[1] = 96 /\ ~errata) =>
               /\ ModeWrites # {}
               /\ \A v \in ModeWrites :
                   /\ BitAnd(v, CS4270_MODE_DIV_MASK) = CS4270_MODE_DIV15
                   /\ slave_mode = 0 =>
                          BitAnd(v, CS4270_MODE_SPEED_MASK) = CS4270_MODE_4X
        /\ errata =>
               \A v \in ModeWrites :
                   BitAnd(v, CS4270_MODE_DIV_MASK) # CS4270_MODE_DIV15

\* C6 witness: 18432000 / 192000 refused in an errata build that has
\* programmed another ratio before.
C6_Witness ==
    /\ errata
    /\ call.op = "hw_params"
    /\ mclk = 18432000
    /\ call.arg = <<192000>>
    /\ call.ret = -EINVAL
    /\ reg_cache[CS4270_MODE] # cs4270_probe[CS4270_MODE]

\* C8: a second set_fmt with the same accepted format word succeeds like the
\* first and leaves mode, slave_mode and mclk as the first left them.
C8_SetFmtIdempotent ==
    [][(call'.op = "set_fmt" /\ again' /\ ValidFormat(call'.arg[1])) =>
           /\ call.ret = 0
           /\ call'.ret = 0
           /\ mode' = mode
           /\ slave_mode' = slave_mode
           /\ mclk' = mclk]_vars

\* C8 witness: the second of two equal, accepted set_fmt calls.
C8_Witness ==
    /\ call.op = "set_fmt"
    /\ again
    /\ ValidFormat(call.arg[1])
    /\ call.ret = 0
    /\ slave_mode = 1
    /\ mode = SND_SOC_DAIFMT_LEFT_J

\* C9: set_sysclk returns 0 for every frequency, 0 included, records it as
\* mclk and changes neither mode, slave_mode, manual_mute nor a register.
C9_SetSysclkFrame ==
    [][call'.op = "set_sysclk" =>
           /\ call'.ret = 0
           /\ mclk' = call'.arg[1]
           /\ UNCHANGED <<mode, slave_mode, manual_mute, reg_cache>>]_vars

\* C9 witness: frequency 0 recorded on a configured, programmed device.
C9_Witness ==
    /\ call.op = "set_sysclk"
    /\ call.arg = <<0>>
    /\ call.ret = 0
    /\ mclk = 0
    /\ mode = SND_SOC_DAIFMT_I2S
    /\ reg_cache # cs4270_probe

\* The DAC A and DAC B mute bits the user switch value <<l, r>> asks for.
SwitchBits(v) ==
    (IF v[1] = 0 THEN CS4270_MUTE_DAC_A ELSE 0)
        + (IF v[2] = 0 THEN CS4270_MUTE_DAC_B ELSE 0)

\* C4: after a digital_mute call that returns success the DAC A / DAC B bits
\* of MUTE are the channels the user switch last muted (unmute) or both set
\* (mute), and every other bit of MUTE is as it was before the call.
C4_UnmuteKeepsManualMute ==
    [][(call'.op = "dai_mute" /\ call'.ret = 0) =>
           /\ BitAnd(reg_cache'[CS4270_MUTE], 3)
                  = (IF call'.arg[1] = 0 THEN SwitchBits(switch) ELSE 3)
           /\ Outside(reg_cache'[CS4270_MUTE], 3)
                  = Outside(reg_cache[CS4270_MUTE], 3)]_vars

\* C5: a hw_params call that returns an error leaves the MODE and the
\* FORMAT register as they were before the call.
C5_HwParamsAtomic ==
    [][(call'.op = "hw_params" /\ call'.ret < 0) =>
           /\ reg_cache'[CS4270_MODE] = reg_cache[CS4270_MODE]
           /\ reg_cache'[CS4270_FORMAT] = reg_cache[CS4270_FORMAT]]_vars

\* C7: hw_params returns success only if set_fmt has returned success on
\* this binding before and the ratio of this call is in the table.
C7_ProgrammedOnlyAfterSetFmt ==
    (call.op = "hw_params" /\ call.ret = 0) =>
        /\ fmt_ok
        /\ Matching(mclk \div call.arg[1]) # {}

\* C10: in hw_params (and digital_mute), if a register transaction fails the
\* call returns the I/O error and issues no further write, and no register
\* is written twice in one call.
C10_IoErrorSurfaced ==
    call.op \in {"hw_params", "dai_mute"} =>
        /\ \A i \in DOMAIN io :
               ~io[i].ok =>
                   /\ call.ret = -EIO
                   /\ \A j \in DOMAIN io : j > i => io[j].k # "w"
        /\ \A i, j \in DOMAIN io :
               (i # j /\ io[i].k = "w" /\ io[j].k = "w") =>
                   io[i].reg # io[j].reg

\* C12: with frequency 0 recorded, hw_params returns -EINVAL for every rate
\* and issues no register transaction; with the last set_sysclk frequency f
\* such that f / rate is a table ratio, after a set_fmt that returned 0,
\* hw_params returns 0 unless a register write of the call fails, and the
\* MODE byte carries the divider of the entry for f / rate.
C12_LatestSysclkUsed ==
    call.op = "hw_params" =>
        LET ratio == sysclk_arg \div call.arg[1]
        IN  /\ sysclk_arg = 0 => (call.ret = -EINVAL /\ io = <<>>)
            /\ (Matching(ratio) # {} /\ fmt_ok) =>
                   /\ (\A i \in DOMAIN io : io[i].k = "w" => io[i].ok) =>
                          call.ret = 0
                   /\ \A i \in Matching(ratio), v \in ModeWrites :
                          BitAnd(v, CS4270_MODE_DIV_MASK)
                              = cs4270_mode_ratios[i].mclk

\* C12 witness: 18432000 was the last frequency passed and hw_params
\* programmed ratio 384 from it.
C12_Witness ==
    /\ call.op = "hw_params"
    /\ call.ret = 0
    /\ fmt_ok
    /\ sysclk_arg = 18432000
    /\ call.arg = <<48000>>
    /\ BitAnd(reg_cache[CS4270_MODE], CS4270_MODE_DIV_MASK) = CS4270_MODE_DIV3

\* C13: a set_fmt call that returns an error leaves mode, slave_mode and
\* mclk as they were.
C13_FailingSetFmtKeepsState ==
    [][(call'.op = "set_fmt" /\ call'.ret < 0) =>
           /\ mode' = mode
           /\ slave_mode' = slave_mode
           /\ mclk' = mclk]_vars

\* C15: if the last set_fmt that returned 0 chose CBS_CFS, every MODE byte
\* hw_params writes has speed field SLAVE (0x30) and the divider of the
\* table entry; if it chose CBM_CFM the speed field is the entry's speed
\* mode and not SLAVE.  Without a table entry for the ratio the call returns
\* -EINVAL and writes nothing, in slave mode too.
C15_RoleSelectsSpeedField ==
    call.op = "hw_params" =>
        LET ratio == mclk \div call.arg[1]
        IN  /\ \A i \in Matching(ratio), v \in ModeWrites :
                /\ BitAnd(v, CS4270_MODE_DIV_MASK)
                       = cs4270_mode_ratios[i].mclk
                /\ last_role = SND_SOC_DAIFMT_CBS_CFS =>
                       BitAnd(v, CS4270_MODE_SPEED_MASK) = CS4270_MODE_SLAVE
                /\ last_role = SND_SOC_DAIFMT_CBM_CFM =>
                       /\ BitAnd(v, CS4270_MODE_SPEED_MASK)
                              = cs4270_mode_ratios[i].speed_mode
                       /\ BitAnd(v, CS4270_MODE_SPEED_MASK)
                              # CS4270_MODE_SLAVE
            /\ (Matching(ratio) # {} /\ last_role # 0) => ModeWrites # {}
            /\ Matching(ratio) = {} => (call.ret = -EINVAL /\ io = <<>>)

\* C15 witness: in slave mode ratio 384 (2x, div3 in the table) was written
\* as SLAVE | div3.
C15_Witness ==
    /\ call.op = "hw_params"
    /\ call.ret = 0
    /\ last_role = SND_SOC_DAIFMT_CBS_CFS
    /\ mclk = 18432000
    /\ call.arg = <<48000>>
    /\ BitAnd(reg_cache[CS4270_MODE], 62) = 54

\* C11: a suspend that returns 0 has written PWRCTL with the three
\* power-down bits set and then disabled the supplies; one that returns an
\* error has left the supplies enabled.  resume enables the supplies first,
\* has them enabled for its register I/O, syncs the cache to the chip and
\* then writes PWRCTL; after a resume that returns 0 every cached register
\* other than PWRCTL is as it was before the suspend, PWRCTL has the
\* power-down bits clear and its other bits as before, and the chip holds
\* the cache.
C11_SuspendResumeEffect ==
    /\ (call.op = "suspend" /\ call.ret = 0) =>
           /\ Len(io) = 3
           /\ io[2].k = "w" /\ io[2].ok /\ io[2].reg = CS4270_PWRCTL
           /\ BitAnd(io[2].val, CS4270_PWRCTL_PDN_ALL) = CS4270_PWRCTL_PDN_ALL
           /\ Outside(io[2].val, CS4270_PWRCTL_PDN_ALL)
                  = Outside(pre_suspend[CS4270_PWRCTL], CS4270_PWRCTL_PDN_ALL)
           /\ io[3].k = "disable"
           /\ enable_count = 0
    /\ (call.op = "suspend" /\ call.ret < 0) =>
           /\ \A i \in DOMAIN io : io[i].k # "disable"
           /\ enable_count = 1
           /\ reg_cache = pre_suspend
    /\ call.op = "resume" =>
           /\ Len(io) = 4
           /\ io[1].k = "enable" /\ io[1].ok
           /\ io[2].k = "sync"
           /\ io[4].k = "w" /\ io[4].reg = CS4270_PWRCTL
    /\ (call.op = "resume" /\ call.ret = 0) =>
           /\ \A r \in Regs \ {CS4270_PWRCTL} : reg_cache[r] = pre_suspend[r]
           /\ BitAnd(reg_cache[CS4270_PWRCTL], CS4270_PWRCTL_PDN_ALL) = 0
           /\ Outside(reg_cache[CS4270_PWRCTL], CS4270_PWRCTL_PDN_ALL)
                  = Outside(pre_suspend[CS4270_PWRCTL], CS4270_PWRCTL_PDN_ALL)
           /\ hw = reg_cache

\* C14: regulator_bulk_disable is never called with no use of the supplies
\* left; the supplies are enabled while the device is bound and not
\* suspended and released with use count zero after remove and after a
\* probe that failed.
C14_SuppliesBalanced ==
    /\ \A i \in DOMAIN io : io[i].k = "disable" => io[i].ok
    /\ pm = "bound" => (held /\ enable_count = 1)
    /\ call.op = "remove" => (~held /\ enable_count = 0)
    /\ (call.op = "probe" /\ call.ret < 0) => (~held /\ enable_count = 0)

==========================================================================
